---- MODULE Spec2Model ----
(***************************************************************************)
(* The live-connection registry (ConnectionManager), its broadcast engine  *)
(* and the per-connection dispatcher (websocket_endpoint) of Real_chat.    *)
(*                                                                         *)
(* One asyncio task runs per connection.  A task is only ever suspended at *)
(* an await that can yield to the event loop: websocket.accept(),          *)
(* websocket.receive_text() and websocket.send_text().  Every action below *)
(* is the code that one task runs between two such awaits, so the         *)
(* synchronous registry methods (disconnect, add_user_to_conversation,     *)
(* remove_user_from_conversation) are steps inside one action.             *)
(*                                                                         *)
(* connection_id is secrets.token_urlsafe(16), a 128 bit random token; it  *)
(* is modelled as fresh: the id of a connection is the index of its task.  *)
(***************************************************************************)
EXTENDS Integers, Sequences, FiniteSets, TLC

\* number of connections (dispatcher tasks) that are ever opened
MaxConns == 3
\* number of inbound frames that are read over the whole run
MaxFrames == 3

Conns == 1..MaxConns
\* Identities and conversation ids are opaque strings.  They are taken in
\* this order: a name is used only once the one before it is in use.
UserSeq == <<"u1", "u2", "u3">>
ConvSeq == <<"c1", "c2">>
Users == {UserSeq[i] : i \in DOMAIN UserSeq}
Convs == {ConvSeq[i] : i \in DOMAIN ConvSeq}
\* a conversation_id that is missing or empty (data.get returns None or "")
NoConv == "none"
NoUser == "nobody"

VARIABLES
    pc,          \* where each connection's task is suspended
    owner,       \* user_id_str of each task, set by verify_token
    transport,   \* "open", or "closed" once a send failed or the endpoint returned
    cm,          \* connection_manager: the three indexes of ConnectionManager
    call,        \* per task: the frame being handled and its broadcast iterators
    received,    \* per connection: the envelopes send_text delivered to it
    nframes      \* number of frames read so far

vars == <<pc, owner, transport, cm, call, received, nframes>>

----------------------------------------------------------------------------
\* dictionaries and sets of ConnectionManager

Drop(f, x) == [y \in (DOMAIN f) \ {x} |-> f[y]]

Put(f, x, v) == [y \in (DOMAIN f) \cup {x} |-> IF y = x THEN v ELSE f[y]]

Pop(s, k) == SelectSeq(s, LAMBDA x : x # k)

Range(s) == {s[i] : i \in DOMAIN s}

\* ConnectionManager.__init__
EmptyManager ==
    [active_connections |-> [u \in {} |-> <<>>],
     user_conversations |-> [u \in {} |-> {}],
     conversation_participants |-> [c \in {} |-> {}]]

\* load_user_conversations: creates the (empty) entry only when it is missing
load_user_conversations(m, user_id) ==
    IF user_id \in DOMAIN m.user_conversations THEN m
    ELSE [m EXCEPT !.user_conversations = Put(@, user_id, {})]

\* connect with the user's dict made anew at every admission
connect_fresh_dict(m, user_id, connection_id) ==
    load_user_conversations(
        [m EXCEPT !.active_connections = Put(@, user_id, <<connection_id>>)], user_id)

\* connect, after websocket.accept() returned.  The inner dict keeps insertion
\* order: it is a sequence of connection ids (the websocket of a connection
\* is identified with its id).
connect(m, user_id, connection_id) ==
    LET conns == IF user_id \in DOMAIN m.active_connections
                 THEN m.active_connections[user_id] ELSE <<>>
        m1 == [m EXCEPT !.active_connections =
                          Put(@, user_id, IF connection_id \in Range(conns) THEN conns
                                          ELSE Append(conns, connection_id))]
    IN load_user_conversations(m1, user_id)

\* disconnect popping the user's oldest connection, whatever connection_id
disconnect_oldest(m, user_id, connection_id) ==
    IF user_id \notin DOMAIN m.active_connections THEN m
    ELSE LET conns == Tail(m.active_connections[user_id]) IN
         IF conns # <<>>
         THEN [m EXCEPT !.active_connections[user_id] = conns]
         ELSE IF user_id \in DOMAIN m.user_conversations
              THEN [active_connections |-> Drop(m.active_connections, user_id),
                    conversation_participants |->
                        [c \in DOMAIN m.conversation_participants |->
                            IF c \in m.user_conversations[user_id]
                            THEN m.conversation_participants[c] \ {user_id}
                            ELSE m.conversation_participants[c]],
                    user_conversations |-> Drop(m.user_conversations, user_id)]
              ELSE [m EXCEPT !.active_connections = Drop(@, user_id)]

\* disconnect without the removal from the conversations
disconnect_no_cascade(m, user_id, connection_id) ==
    IF user_id \notin DOMAIN m.active_connections THEN m
    ELSE LET conns == Pop(m.active_connections[user_id], connection_id) IN
         IF conns # <<>>
         THEN [m EXCEPT !.active_connections[user_id] = conns]
         ELSE [m EXCEPT !.active_connections = Drop(@, user_id)]

\* disconnect
disconnect(m, user_id, connection_id) ==
    IF user_id \notin DOMAIN m.active_connections THEN m
    ELSE LET conns == Pop(m.active_connections[user_id], connection_id) IN
         IF conns # <<>>
         THEN [m EXCEPT !.active_connections[user_id] = conns]
         ELSE IF user_id \in DOMAIN m.user_conversations
              THEN [active_connections |-> Drop(m.active_connections, user_id),
                    conversation_participants |->
                        [c \in DOMAIN m.conversation_participants |->
                            IF c \in m.user_conversations[user_id]
                            THEN m.conversation_participants[c] \ {user_id}
                            ELSE m.conversation_participants[c]],
                    user_conversations |-> Drop(m.user_conversations, user_id)]
              ELSE [m EXCEPT !.active_connections = Drop(@, user_id)]

\* add_user_to_conversation
add_user_to_conversation(m, user_id, conversation_id) ==
    LET uc == IF user_id \in DOMAIN m.user_conversations
              THEN m.user_conversations[user_id] ELSE {}
        cp == IF conversation_id \in DOMAIN m.conversation_participants
              THEN m.conversation_participants[conversation_id] ELSE {}
    IN [m EXCEPT !.user_conversations = Put(@, user_id, uc \cup {conversation_id}),
                 !.conversation_participants = Put(@, conversation_id, cp \cup {user_id})]

\* remove_user_from_conversation that leaves conversation_participants alone
remove_user_one_index(m, user_id, conversation_id) ==
    IF user_id \in DOMAIN m.user_conversations
    THEN [m EXCEPT !.user_conversations[user_id] = @ \ {conversation_id}]
    ELSE m

\* remove_user_from_conversation
remove_user_from_conversation(m, user_id, conversation_id) ==
    LET m1 == IF user_id \in DOMAIN m.user_conversations
              THEN [m EXCEPT !.user_conversations[user_id] = @ \ {conversation_id}]
              ELSE m
    IN IF conversation_id \in DOMAIN m1.conversation_participants
       THEN [m1 EXCEPT !.conversation_participants[conversation_id] = @ \ {user_id}]
       ELSE m1

\* the tail of send_personal_message without the deletion of an emptied entry
prune_keeps_empty_entry(m, user_id, dead_connections) ==
    [m EXCEPT !.active_connections[user_id] =
                  SelectSeq(@, LAMBDA x : x \notin dead_connections)]

\* the tail of send_personal_message: dead connections are popped and the
\* user's entry is deleted when no connection is left; nothing else is touched
prune_dead_connections(m, user_id, dead_connections) ==
    LET conns == SelectSeq(m.active_connections[user_id],
                           LAMBDA x : x \notin dead_connections)
    IN IF conns # <<>>
       THEN [m EXCEPT !.active_connections[user_id] = conns]
       ELSE [m EXCEPT !.active_connections = Drop(@, user_id)]

\* get_user_connection_count
get_user_connection_count(m, user_id) ==
    IF user_id \in DOMAIN m.active_connections
    THEN Len(m.active_connections[user_id])
    ELSE 0

\* is_user_online looking the user up in user_conversations
is_user_online_wrong_index(m, user_id) ==
    user_id \in DOMAIN m.user_conversations

\* is_user_online
is_user_online(m, user_id) ==
    /\ user_id \in DOMAIN m.active_connections
    /\ Len(m.active_connections[user_id]) > 0

\* get_conversation_participants
get_conversation_participants(m, conversation_id) ==
    IF conversation_id \in DOMAIN m.conversation_participants
    THEN m.conversation_participants[conversation_id]
    ELSE {}

\* get_user_conversations
get_user_conversations(m, user_id) ==
    IF user_id \in DOMAIN m.user_conversations
    THEN m.user_conversations[user_id]
    ELSE {}

\* sum(len(connections) for connections in self.active_connections.values())
RECURSIVE total_connections(_, _)
total_connections(m, users) ==
    IF users = {} THEN 0
    ELSE LET u == CHOOSE x \in users : TRUE IN
         Len(m.active_connections[u]) + total_connections(m, users \ {u})

\* get_stats dividing by the number of users itself
get_stats_unguarded(m) ==
    LET total == total_connections(m, DOMAIN m.active_connections)
        online == Cardinality(DOMAIN m.active_connections)
    IN [total_users_online |-> online,
        total_connections |-> total,
        total_conversations |-> Cardinality(DOMAIN m.conversation_participants),
        average_connections_per_user |-> [num |-> total, den |-> online]]

\* get_stats.  The average is the quotient num / den of a true division,
\* kept as the pair of its operands: it is 0 when num is 0, and the division
\* raises ZeroDivisionError when den is 0.
get_stats(m) ==
    LET total == total_connections(m, DOMAIN m.active_connections)
        online == Cardinality(DOMAIN m.active_connections)
    IN [total_users_online |-> online,
        total_connections |-> total,
        total_conversations |-> Cardinality(DOMAIN m.conversation_participants),
        average_connections_per_user |->
            [num |-> total, den |-> IF online > 1 THEN online ELSE 1]]

\* get_all_online_users: the keys of active_connections
get_all_online_users(m) == DOMAIN m.active_connections

\* get_online_users: the participants that are keys of active_connections
get_online_users(m, conversation_id) ==
    IF conversation_id \in DOMAIN m.conversation_participants
    THEN {u \in m.conversation_participants[conversation_id] :
             u \in DOMAIN m.active_connections}
    ELSE {}

\* the connection ids registered for a user
ConnectionsOf(m, user_id) ==
    IF user_id \in DOMAIN m.active_connections
    THEN Range(m.active_connections[user_id])
    ELSE {}

Registered(m) == UNION {ConnectionsOf(m, u) : u \in Users}

----------------------------------------------------------------------------
\* the call frame of a task: the frame it handles and, while it is inside
\* broadcast_to_conversation, the two live iterators of the nested loops

\* status: "idle"      no handler is running (the task awaits receive_text)
\*         "active"    suspended inside broadcast_to_conversation
\*         "returned"  the handler's broadcast returned
\*         "raised"    RuntimeError left broadcast_to_conversation
\*         "rejected"  handle_message_send raised before any broadcast
\*         "unknown"   the event type is not one of the five
\* A frame is kept from the step that reads it to the step in which
\* handle_websocket_event returns.
Idle ==
    [status |-> "idle", kind |-> "none", conv |-> NoConv, frame |-> 0,
     content |-> "",
     si_used |-> 0,      \* size of the participants set when its iterator was made
     visited |-> {},     \* users the set iterator has passed
     m0 |-> {},          \* the participants set when its iterator was made
     user |-> NoUser,    \* user_id of the running send_personal_message
     di_used |-> 0,      \* size of that user's dict when its iterator was made
     yielded |-> {},     \* connection ids the dict iterator has yielded
     dead |-> {},        \* dead_connections
     stale |-> FALSE,    \* the iterated dict was deleted from active_connections
     target |-> 0,       \* the connection whose send_text is awaited
     failed |-> {},      \* history: connections whose send_text raised in this call
     steady |-> {},      \* history: recipients' connections registered all along
     ever |-> {}]        \* history: users that were participants during the call

\* connections a broadcast to conversation_id excluding exclude_user addresses
RecipientConns(m, conversation_id, exclude_user) ==
    UNION {ConnectionsOf(m, u) :
             u \in get_conversation_participants(m, conversation_id) \ {exclude_user}}

\* for ... in self.active_connections[user_id].items(): the iterator is made
\* and yields the first connection, whose send_text is then awaited
send_personal_message(b, m, user_id) ==
    LET conns == m.active_connections[user_id] IN
    [b EXCEPT !.user = user_id, !.di_used = Len(conns), !.yielded = {conns[1]},
              !.dead = {}, !.stale = FALSE, !.target = conns[1]]

\* The iterator fields and the history are cleared when the broadcast ends.
Finished(b, status) ==
    [Idle EXCEPT !.status = status, !.kind = b.kind, !.conv = b.conv,
                 !.frame = b.frame, !.content = b.content]

\* broadcast_to_conversation from the point where the set iterator is asked
\* for its next user, up to the next awaited send_text.  The result is the
\* set of call frames the task can be in then.  A set iterates in hash
\* order, which the model leaves open: any user not yet passed can be next,
\* users without effect (the excluded one, or one with no entry in
\* active_connections) may have been passed before it, and a user added
\* after the iterator was made may be missed.  A set whose size differs from
\* the size at iterator creation raises RuntimeError.
broadcast_to_conversation(b, m, exclude_user) ==
    LET cur == m.conversation_participants[b.conv] IN
    IF Cardinality(cur) # b.si_used
    THEN {Finished(b, "raised")}
    ELSE LET rem == cur \ b.visited
             eff == {u \in rem : u # exclude_user /\ u \in DOMAIN m.active_connections}
             idle == rem \ (eff \cup {exclude_user})
         IN {send_personal_message(
                 [b EXCEPT !.visited = @ \cup {u, exclude_user} \cup W], m, u) :
                   u \in eff, W \in SUBSET idle}
            \cup (IF eff \cap b.m0 = {} THEN {Finished(b, "returned")} ELSE {})

\* the call of broadcast_to_conversation: nothing happens for a conversation
\* without an entry, else the set iterator is made and asked for a user
start_broadcast(b, m, exclude_user) ==
    IF b.conv \notin DOMAIN m.conversation_participants
    THEN {Finished(b, "returned")}
    ELSE LET members == m.conversation_participants[b.conv] IN
         broadcast_to_conversation(
             [b EXCEPT !.status = "active", !.si_used = Cardinality(members),
                       !.m0 = members, !.ever = members,
                       !.steady = RecipientConns(m, b.conv, exclude_user)],
             m, exclude_user)

\* send_personal_message resumed after the awaited send_text: the dict
\* iterator is asked for its next item.  A dict that changed size (or was
\* deleted and so emptied) raises RuntimeError, as does an item found after
\* di_used items were yielded; an exhausted iterator prunes the dead
\* connections and the set iterator of the broadcast is asked next.
\* The result is a set of pairs: the call frame and the manager.
resume_send(b, m, exclude_user) ==
    IF b.stale \/ Len(m.active_connections[b.user]) # b.di_used
    THEN {<<Finished(b, "raised"), m>>}
    ELSE LET unseen == SelectSeq(m.active_connections[b.user],
                                 LAMBDA x : x \notin b.yielded) IN
         IF unseen # <<>>
         THEN IF Cardinality(b.yielded) >= b.di_used
              THEN {<<Finished(b, "raised"), m>>}
              ELSE {<<[b EXCEPT !.yielded = @ \cup {Head(unseen)},
                                !.target = Head(unseen)], m>>}
         ELSE LET m1 == prune_dead_connections(m, b.user, b.dead) IN
              {<<b1, m1>> : b1 \in broadcast_to_conversation(b, m1, exclude_user)}

----------------------------------------------------------------------------
\* envelopes

BroadcastKinds ==
    {"message_send", "typing_start", "typing_stop",
     "join_conversation", "leave_conversation"}

\* the event_type of the envelope each handler broadcasts
OutType(kind) ==
    CASE kind = "message_send" -> "message_received"
      [] kind = "typing_start" -> "typing_start"
      [] kind = "typing_stop" -> "typing_stop"
      [] kind = "join_conversation" -> "user_joined_conversation"
      [] kind = "leave_conversation" -> "user_left_conversation"
      [] OTHER -> "error"

\* the message dict a handler builds; frame stands for its timestamp
Envelope(b, user_id) ==
    [event_type |-> OutType(b.kind), conversation_id |-> b.conv,
     user_id |-> user_id, content |-> b.content, frame |-> b.frame]

\* str(e) of the exception that reached handle_websocket_event, or the text
\* of its else branch
ErrorText(b) ==
    CASE b.status = "unknown" -> "Unknown event type"
      [] b.status = "rejected" -> "conversation_id and content are required"
      [] OTHER -> "changed size during iteration"

\* the error_message dict of handle_websocket_event
ErrorEnvelope(b) ==
    [event_type |-> "error", conversation_id |-> NoConv,
     user_id |-> NoUser, content |-> ErrorText(b), frame |-> b.frame]

\* the connections that have, in rcv, an envelope of frame n other than an
\* error envelope
DeliveredIn(rcv, n) ==
    {x \in Conns : \E i \in DOMAIN rcv[x] :
        rcv[x][i].frame = n /\ rcv[x][i].event_type # "error"}

Delivered(n) == DeliveredIn(received, n)

\* the connections that received an error envelope for frame n
ErrorsFor(n) ==
    {x \in Conns : \E i \in DOMAIN received[x] :
        received[x][i].frame = n /\ received[x][i].event_type = "error"}

----------------------------------------------------------------------------
\* the dispatcher: websocket_endpoint and the handlers

\* What the other tasks' iterators see of a changed manager: a dict that was
\* deleted from active_connections stays empty for the iterator that holds it.
Observe(t, b, m) ==
    IF b.status # "active" THEN b
    ELSE [b EXCEPT !.stale = @ \/ b.user \notin DOMAIN m.active_connections,
                   !.steady = @ \cap RecipientConns(m, b.conv, owner[t]),
                   !.ever = @ \cup get_conversation_participants(m, b.conv)]

Commit(k, b, m) ==
    /\ cm' = m
    /\ call' = [t \in Conns |-> Observe(t, IF t = k THEN b ELSE call[t], m)]

\* The task runs on from a broadcast to its next await: inside the broadcast
\* (send_text), in the except clause of handle_websocket_event (send_text of
\* the error envelope) or back in the read loop (receive_text).
\* handle_leave_conversation removes the user once its broadcast returned.
Settle(k, b, m) ==
    /\ pc' = [pc EXCEPT ![k] = CASE b.status = "active" -> "Sending"
                                 [] b.status = "raised" -> "ErrorReply"
                                 [] OTHER -> "Streaming"]
    /\ Commit(k, IF b.status = "returned" THEN Idle ELSE b,
              IF b.status = "returned" /\ b.kind = "leave_conversation"
              THEN remove_user_from_conversation(m, owner[k], b.conv)
              ELSE m)

\* the endpoint returns: the server closes the websocket
Close(k) ==
    /\ pc' = [pc EXCEPT ![k] = "Closed"]
    /\ transport' = [transport EXCEPT ![k] = "closed"]

\* both except clauses of websocket_endpoint
Retire(k) ==
    /\ Close(k)
    /\ Commit(k, Idle, disconnect(cm, owner[k], k))

\* a read loop that does not await handle_websocket_event
Reading_unawaited(k) ==
    /\ pc[k] \in {"Streaming", "Sending"}
    /\ transport[k] = "open"
    /\ nframes < MaxFrames

Reading(k) ==
    /\ pc[k] = "Streaming"
    /\ transport[k] = "open"
    /\ nframes < MaxFrames

\* the conversation ids a frame can carry (NoConv: none)
FrameConvs ==
    {NoConv} \cup {ConvSeq[i] : i \in {j \in DOMAIN ConvSeq :
        IF j = 1 THEN TRUE
        ELSE ConvSeq[j - 1] \in DOMAIN cm.conversation_participants}}

NewFrame(kind, conversation_id, content) ==
    [Idle EXCEPT !.kind = kind, !.conv = conversation_id,
                 !.content = content, !.frame = nframes + 1]

Init ==
    /\ pc = [k \in Conns |-> "Connecting"]
    /\ owner = [k \in Conns |-> NoUser]
    /\ transport = [k \in Conns |-> "open"]
    /\ cm = EmptyManager
    /\ call = [k \in Conns |-> Idle]
    /\ received = [k \in Conns |-> <<>>]
    /\ nframes = 0

\* the token check placed after connection_manager.connect
RejectToken_after_connect(k) ==
    /\ pc[k] = "Connecting"
    /\ \A j \in Conns : j < k => pc[j] # "Connecting"
    /\ Close(k)
    /\ Commit(k, call[k], connect(cm, UserSeq[1], k))
    /\ UNCHANGED <<owner, received, nframes>>

\* no token, or verify_token raises HTTPException: close(1008) and return
RejectToken(k) ==
    /\ pc[k] = "Connecting"
    /\ \A j \in Conns : j < k => pc[j] # "Connecting"
    /\ Close(k)
    /\ UNCHANGED <<owner, cm, call, received, nframes>>

\* verify_token returns the identity, websocket.accept() returns and
\* connect registers the connection: the read loop starts.  (Nothing is
\* written between verify_token and the return of accept.)
Connect(k) ==
    /\ pc[k] = "Connecting"
    /\ \A j \in Conns : j < k => pc[j] # "Connecting"
    /\ \E i \in DOMAIN UserSeq :
         /\ IF i = 1 THEN TRUE ELSE \E j \in Conns : owner[j] = UserSeq[i - 1]
         /\ owner' = [owner EXCEPT ![k] = UserSeq[i]]
         /\ Commit(k, call[k], connect(cm, UserSeq[i], k))
    /\ pc' = [pc EXCEPT ![k] = "Streaming"]
    /\ UNCHANGED <<transport, received, nframes>>

\* receive_text raises WebSocketDisconnect: the client went away, or the
\* transport broke
ReceiveDisconnect(k) ==
    /\ pc[k] = "Streaming"
    /\ Retire(k)
    /\ UNCHANGED <<owner, received, nframes>>

\* json.loads (or message_data.get) raises on a frame that is no JSON object:
\* the except Exception clause of websocket_endpoint
ReceiveMalformed(k) ==
    /\ Reading(k)
    /\ nframes' = nframes + 1
    /\ Retire(k)
    /\ UNCHANGED <<owner, received>>

\* the frame is read and the else branch of handle_websocket_event runs, with
\* the exception of json.loads in its place
ReceiveUnknown_disconnects(k) ==
    /\ Reading(k)
    /\ nframes' = nframes + 1
    /\ Retire(k)
    /\ UNCHANGED <<owner, received>>

\* the else branch of handle_websocket_event: send_text of the error envelope
ReceiveUnknown(k) ==
    /\ Reading(k)
    /\ nframes' = nframes + 1
    /\ pc' = [pc EXCEPT ![k] = "UnknownReply"]
    /\ Commit(k, [NewFrame("bogus", NoConv, "") EXCEPT !.status = "unknown"], cm)
    /\ UNCHANGED <<owner, transport, received>>

\* handle_message_send rejecting a sender that is no participant
MessageSend_members_only(k, conversation_id, content) ==
    /\ Reading(k)
    /\ nframes' = nframes + 1
    /\ LET b == NewFrame("message_send", conversation_id, content) IN
       IF \/ conversation_id = NoConv
          \/ content = ""
          \/ owner[k] \notin get_conversation_participants(cm, conversation_id)
       THEN /\ pc' = [pc EXCEPT ![k] = "ErrorReply"]
            /\ Commit(k, [b EXCEPT !.status = "rejected"], cm)
       ELSE \E b1 \in start_broadcast(b, cm, owner[k]) : Settle(k, b1, cm)
    /\ UNCHANGED <<owner, transport, received>>

\* handle_message_send without the check of conversation_id and content
MessageSend_unchecked(k, conversation_id, content) ==
    /\ Reading(k)
    /\ nframes' = nframes + 1
    /\ \E b1 \in start_broadcast(NewFrame("message_send", conversation_id, content),
                                 cm, owner[k]) : Settle(k, b1, cm)
    /\ UNCHANGED <<owner, transport, received>>

\* handle_message_send on a frame with the given conversation_id and content:
\* ValueError (re-raised as HTTPException) when one of them is missing or
\* empty, else the broadcast of the message_received envelope
MessageSend(k, conversation_id, content) ==
    /\ Reading(k)
    /\ nframes' = nframes + 1
    /\ LET b == NewFrame("message_send", conversation_id, content) IN
       IF conversation_id = NoConv \/ content = ""
       THEN /\ pc' = [pc EXCEPT ![k] = "ErrorReply"]
            /\ Commit(k, [b EXCEPT !.status = "rejected"], cm)
       ELSE \E b1 \in start_broadcast(b, cm, owner[k]) : Settle(k, b1, cm)
    /\ UNCHANGED <<owner, transport, received>>

handle_message_send(k) ==
    \E c \in FrameConvs, content \in {"hi", ""} : MessageSend(k, c, content)

\* a typing handler that registers the sender as participant
Typing_joins(k, kind, conversation_id) ==
    /\ Reading(k)
    /\ nframes' = nframes + 1
    /\ LET b == NewFrame(kind, conversation_id, "") IN
       IF conversation_id = NoConv
       THEN UNCHANGED <<pc, cm, call>>
       ELSE LET m == add_user_to_conversation(cm, owner[k], conversation_id) IN
            \E b1 \in start_broadcast(b, m, owner[k]) : Settle(k, b1, m)
    /\ UNCHANGED <<owner, transport, received>>

\* handle_typing_start (kind "typing_start") and handle_typing_stop, through
\* send_typing_indicator; a frame without conversation_id is passed over
Typing(k, kind, conversation_id) ==
    /\ Reading(k)
    /\ nframes' = nframes + 1
    /\ LET b == NewFrame(kind, conversation_id, "") IN
       IF conversation_id = NoConv
       THEN UNCHANGED <<pc, cm, call>>
       ELSE \E b1 \in start_broadcast(b, cm, owner[k]) : Settle(k, b1, cm)
    /\ UNCHANGED <<owner, transport, received>>

handle_typing(k) ==
    \E c \in FrameConvs, kind \in {"typing_start", "typing_stop"} : Typing(k, kind, c)

\* handle_join_conversation: add_user_to_conversation, then
\* notify_user_joined_conversation; return on a missing conversation_id
JoinConversation(k, conversation_id) ==
    /\ Reading(k)
    /\ nframes' = nframes + 1
    /\ LET b == NewFrame("join_conversation", conversation_id, "") IN
       IF conversation_id = NoConv
       THEN UNCHANGED <<pc, cm, call>>
       ELSE LET m == add_user_to_conversation(cm, owner[k], conversation_id) IN
            \E b1 \in start_broadcast(b, m, owner[k]) : Settle(k, b1, m)
    /\ UNCHANGED <<owner, transport, received>>

handle_join_conversation(k) ==
    \E c \in FrameConvs : JoinConversation(k, c)

\* handle_leave_conversation: notify_user_left_conversation, then
\* remove_user_from_conversation (in Settle); return on a missing conversation_id
LeaveConversation(k, conversation_id) ==
    /\ Reading(k)
    /\ nframes' = nframes + 1
    /\ LET b == NewFrame("leave_conversation", conversation_id, "") IN
       IF conversation_id = NoConv
       THEN UNCHANGED <<pc, cm, call>>
       ELSE \E b1 \in start_broadcast(b, cm, owner[k]) : Settle(k, b1, cm)
    /\ UNCHANGED <<owner, transport, received>>

handle_leave_conversation(k) ==
    \E c \in FrameConvs : LeaveConversation(k, c)

\* the awaited websocket.send_text of send_personal_message returns
SendDelivered(k) ==
    /\ pc[k] = "Sending"
    /\ transport[call[k].target] = "open"
    /\ received' = [received EXCEPT ![call[k].target] =
                                         Append(@, Envelope(call[k], owner[k]))]
    /\ \E r \in resume_send(call[k], cm, owner[k]) : Settle(k, r[1], r[2])
    /\ UNCHANGED <<owner, transport, nframes>>

\* the awaited websocket.send_text raises: except Exception marks the
\* connection dead.  A transport on which a send failed is broken.
SendFailed(k) ==
    /\ pc[k] = "Sending"
    /\ transport' = [transport EXCEPT ![call[k].target] = "closed"]
    /\ LET b == [call[k] EXCEPT !.dead = @ \cup {call[k].target},
                                !.failed = @ \cup {call[k].target}]
       IN \E r \in resume_send(b, cm, owner[k]) : Settle(k, r[1], r[2])
    /\ UNCHANGED <<owner, received, nframes>>

\* send_text of the error envelope returns: finally db.close(), next frame
ErrorDelivered(k) ==
    /\ pc[k] \in {"UnknownReply", "ErrorReply"}
    /\ transport[k] = "open"
    /\ received' = [received EXCEPT ![k] = Append(@, ErrorEnvelope(call[k]))]
    /\ pc' = [pc EXCEPT ![k] = "Streaming"]
    /\ call' = [call EXCEPT ![k] = Idle]
    /\ UNCHANGED <<owner, transport, cm, nframes>>

\* send_text in the else branch raises: the except clause of
\* handle_websocket_event sends an error envelope in its turn
UnknownReplyFailed(k) ==
    /\ pc[k] = "UnknownReply"
    /\ transport' = [transport EXCEPT ![k] = "closed"]
    /\ pc' = [pc EXCEPT ![k] = "ErrorReply"]
    /\ UNCHANGED <<owner, cm, call, received, nframes>>

\* send_text in the except clause raises: the exception leaves
\* handle_websocket_event and reaches except Exception of websocket_endpoint
ErrorReplyFailed(k) ==
    /\ pc[k] = "ErrorReply"
    /\ Retire(k)
    /\ UNCHANGED <<owner, received, nframes>>

\* The task is cancelled at its await: CancelledError is a BaseException,
\* which neither except clause of websocket_endpoint (nor any except
\* Exception on the way) catches.
Cancel(k) ==
    /\ pc[k] \in {"Streaming", "Sending", "UnknownReply", "ErrorReply"}
    /\ Close(k)
    /\ call' = [call EXCEPT ![k] = Idle]
    /\ UNCHANGED <<owner, cm, received, nframes>>

Next ==
    \E k \in Conns :
        \/ RejectToken(k)
        \/ Connect(k)
        \/ ReceiveDisconnect(k)
        \/ ReceiveMalformed(k)
        \/ ReceiveUnknown(k)
        \/ handle_message_send(k)
        \/ handle_typing(k)
        \/ handle_join_conversation(k)
        \/ handle_leave_conversation(k)
        \/ SendDelivered(k)
        \/ SendFailed(k)
        \/ ErrorDelivered(k)
        \/ UnknownReplyFailed(k)
        \/ ErrorReplyFailed(k)

Spec == Init /\ [][Next]_vars

\* the program with tasks that are cancelled from outside (server shutdown)
NextShutdown ==
    \/ Next
    \/ \E k \in Conns : Cancel(k)

SpecShutdown == Init /\ [][NextShutdown]_vars

TypeOK ==
    /\ pc \in [Conns -> {"Connecting", "Streaming", "Sending",
                          "UnknownReply", "ErrorReply", "Closed"}]
    /\ owner \in [Conns -> Users \cup {NoUser}]
    /\ transport \in [Conns -> {"open", "closed"}]
    /\ DOMAIN cm.active_connections \subseteq Users
    /\ DOMAIN cm.user_conversations \subseteq Users
    /\ DOMAIN cm.conversation_participants \subseteq Convs
    /\ nframes \in 0..MaxFrames

----------------------------------------------------------------------------
\* steps of a task, for the properties below

InLoop == {"Streaming", "Sending", "UnknownReply", "ErrorReply"}

\* task k is admitted in this step
Admits(k) == pc[k] = "Connecting" /\ pc'[k] = "Streaming"

\* task k leaves the read loop in this step
Leaves(k) == pc[k] \in InLoop /\ pc'[k] = "Closed"

\* the broadcast of task k ends in this step: it returns or it raises
Ends(k) == call[k].status = "active" /\ call'[k].status # "active" /\ pc'[k] # "Closed"

Returns(k) == Ends(k) /\ call'[k].status = "idle"

Aborts(k) == Ends(k) /\ call'[k].status = "raised"

\* the connections whose send_text raised in the broadcast that ends
FailedIn(k) ==
    call[k].failed \cup {x \in {call[k].target} : received'[x] = received[x]}

\* the recipients' connections that were registered from the start of the
\* broadcast to its end and whose transport works
Owed(k) == {x \in call[k].steady : transport'[x] = "open"}

\* the envelopes this step puts on connection x
Appended(x) ==
    {received'[x][i] : i \in (DOMAIN received'[x]) \ (DOMAIN received[x])}

\* user_id is (is not) in both membership indexes for conversation_id
IsMember(m, user_id, conversation_id) ==
    /\ user_id \in get_conversation_participants(m, conversation_id)
    /\ conversation_id \in get_user_conversations(m, user_id)

NoMember(m, user_id, conversation_id) ==
    /\ user_id \notin get_conversation_participants(m, conversation_id)
    /\ conversation_id \notin get_user_conversations(m, user_id)

\* the tasks that were ever given the identity user_id
TasksOf(user_id) == {k \in Conns : owner[k] = user_id}

----------------------------------------------------------------------------
\* C1: in every reachable state, whatever the interleaving of connects,
\* disconnects, joins, leaves, broadcasts and send failures, a user is in
\* conversation_participants[c] exactly when c is in user_conversations[user].
C1_BidirectionalMembership ==
    \A u \in Users, c \in Convs :
        u \in get_conversation_participants(cm, c) <=> c \in get_user_conversations(cm, u)

\* a member in both indexes while a broadcast is suspended at a send and
\* another user was removed from a conversation
C1_Witness ==
    \E u \in Users, c \in Convs, k \in Conns :
        /\ u \in get_conversation_participants(cm, c)
        /\ c \in get_user_conversations(cm, u)
        /\ pc[k] = "Sending"
        /\ \E j \in Conns : pc[j] = "Closed" /\ owner[j] \in Users

\* C2 (as claimed): a user with no registered connection is in no
\* conversation's participants and has no user_conversations entry, whether
\* its last connection went by disconnect or by the pruning of
\* send_personal_message.
C2_OfflineHasNoMembership ==
    \A u \in Users :
        ~ is_user_online(cm, u) =>
            /\ u \notin DOMAIN cm.user_conversations
            /\ \A c \in Convs : u \notin get_conversation_participants(cm, c)

\* C3 (as claimed): when a send_text of a broadcast raised, the broadcast
\* still ends by returning (no error envelope goes to the sender), every
\* other recipient connection has the envelope, and the connections whose
\* send raised are out of active_connections when it ends.
C3_FailureIsLocal ==
    [][\A k \in Conns :
          (Ends(k) /\ FailedIn(k) # {}) =>
              /\ ~ Aborts(k)
              /\ Owed(k) \subseteq DeliveredIn(received', call[k].frame)
              /\ FailedIn(k) \cap Registered(cm') = {}]_vars

\* C4 (as claimed): a broadcast to c excluding S has, when it ends, put the
\* envelope on every registered connection of every participant but S, and
\* no send_text of it goes to a connection of S or of a user that was no
\* participant of c during the call.
C4_DeliversToMembersOnly ==
    [][\A k \in Conns :
          /\ Ends(k) => Owed(k) \subseteq DeliveredIn(received', call[k].frame)
          /\ (pc[k] = "Sending" /\ received' # received) =>
                 /\ owner[call[k].target] # owner[k]
                 /\ owner[call[k].target] \in call[k].ever]_vars

\* C5 (as claimed): join, leave, connect and disconnect of other connections
\* at the send suspension points of a broadcast do not abort it: it ends by
\* returning, and every connection that was a registered recipient all
\* along has the envelope.
C5_SnapshotBroadcast ==
    [][\A k \in Conns :
          Ends(k) =>
              /\ Returns(k)
              /\ Owed(k) \subseteq DeliveredIn(received', call[k].frame)]_vars

\* C6 (as claimed): every step in which a task leaves the read loop has the
\* effect of disconnect(user_id_str, connection_id) on the manager, task
\* cancellation included.
C6_EveryExitRetires ==
    [][\A k \in Conns : Leaves(k) => cm' = disconnect(cm, owner[k], k)]_vars

\* C7 (as claimed): a frame that cannot be decoded leaves the connection in
\* the read loop and registered, with an error envelope sent to it.
C7_MalformedKeepsOpen ==
    [][\A k \in Conns :
          ReceiveMalformed(k) =>
              /\ pc'[k] \in {"ErrorReply", "Streaming"}
              /\ k \in Registered(cm')]_vars

\* C8: an admission adds one connection to the user's registered ones and
\* replaces none (two admissions of one user give a count of 2); a
\* disconnect of one of several connections of a user removes that one
\* only, keeps the user online and leaves its memberships as they were.
C8_TwoConnections ==
    [][\A k \in Conns :
          /\ Admits(k) =>
                /\ k \notin ConnectionsOf(cm, owner'[k])
                /\ ConnectionsOf(cm', owner'[k]) = ConnectionsOf(cm, owner'[k]) \cup {k}
                /\ get_user_connection_count(cm', owner'[k])
                     = get_user_connection_count(cm, owner'[k]) + 1
          /\ (Leaves(k) /\ ConnectionsOf(cm, owner[k]) \ {k} # {}) =>
                /\ ConnectionsOf(cm', owner[k]) = ConnectionsOf(cm, owner[k]) \ {k}
                /\ is_user_online(cm', owner[k])
                /\ cm'.user_conversations = cm.user_conversations
                /\ cm'.conversation_participants = cm.conversation_participants]_vars

\* a user with a closed connection, a registered one and a membership
C8_Witness ==
    \E j, k \in Conns :
        /\ j # k /\ owner[j] = owner[k] /\ owner[j] \in Users
        /\ pc[k] = "Closed" /\ pc[j] = "Streaming"
        /\ ConnectionsOf(cm, owner[j]) = {j}
        /\ get_user_conversations(cm, owner[j]) # {}

\* C9: the disconnect of a user's last registered connection leaves, in the
\* very step in which the user goes offline, the user in no conversation's
\* participants and without user_conversations entry.
C9_AtomicRetire ==
    [][\A k \in Conns :
          (Leaves(k) /\ ConnectionsOf(cm, owner[k]) = {k}) =>
              /\ ~ is_user_online(cm', owner[k])
              /\ owner[k] \notin DOMAIN cm'.user_conversations
              /\ \A c \in Convs :
                    owner[k] \notin get_conversation_participants(cm', c)]_vars

\* one join was read, and the disconnect of the joiner's last connection
\* emptied two indexes at once: the conversation is left without participant
C9_Witness ==
    /\ nframes = 1
    /\ \E c \in DOMAIN cm.conversation_participants :
          cm.conversation_participants[c] = {}
    /\ \E k \in Conns :
          /\ pc[k] = "Closed" /\ owner[k] \in Users
          /\ ~ is_user_online(cm, owner[k])
          /\ owner[k] \notin DOMAIN cm.user_conversations

\* C10: for every user, is_user_online is get_user_connection_count > 0.
C10_OnlineIffCount ==
    \A u \in Users :
        is_user_online(cm, u) <=> (get_user_connection_count(cm, u) > 0)

\* a user with two connections beside a user whose only connection was
\* pruned after a failed send
C10_Witness ==
    \E u, v \in Users :
        /\ get_user_connection_count(cm, u) = 2
        /\ ~ is_user_online(cm, v)
        /\ v \in DOMAIN cm.user_conversations

\* a broadcast that returns has put the envelope on every connection that
\* was a registered recipient all along and whose transport works, and the
\* connections whose send raised are out of active_connections
ReturnedBroadcastDelivered ==
    [][\A k \in Conns :
          Returns(k) =>
              /\ Owed(k) \subseteq DeliveredIn(received', call[k].frame)
              /\ FailedIn(k) \cap Registered(cm') = {}]_vars

\* no send_text of a broadcast goes to a connection of the excluded user or
\* of a user that was no participant during the call
NoDeliveryOutside ==
    [][\A k \in Conns :
          (pc[k] = "Sending" /\ received' # received) =>
              /\ owner[call[k].target] # owner[k]
              /\ owner[call[k].target] \in call[k].ever]_vars

----------------------------------------------------------------------------
\* C11 (as claimed): for a message_send of user S with a conversation_id and
\* non-empty content, when the broadcast ends every registered connection of
\* every other participant has the message_received envelope (sender S, that
\* content) exactly once, and no step puts an envelope of this event, the
\* error envelope included, on a connection of S.
C11_MessageSendDelivery ==
    [][\A k \in Conns :
          (call[k].kind = "message_send" /\ call[k].status \in {"active", "raised"}) =>
              /\ Ends(k) =>
                    \A x \in Owed(k) :
                        Cardinality({i \in DOMAIN received'[x] :
                            received'[x][i] = Envelope(call[k], owner[k])}) = 1
              /\ \A x \in Conns :
                    owner[x] = owner[k] =>
                        \A e \in Appended(x) : e.frame # call[k].frame]_vars

\* C12: a frame with an unrecognized event_type changes neither the manager
\* nor any connection's envelopes and starts no broadcast; the only envelope
\* of the event is one error envelope naming the unknown type, put on the
\* connection that sent the frame, after which that connection is back at
\* receive_text with the manager as it was.
C12_UnknownEventType ==
    [][\A k \in Conns :
          /\ ReceiveUnknown(k) =>
                /\ pc'[k] = "UnknownReply"
                /\ cm' = cm
                /\ received' = received
                /\ \A j \in Conns : call'[j].status = "active" <=> call[j].status = "active"
          /\ call[k].status = "unknown" =>
                \A x \in Conns : \A e \in Appended(x) :
                    e.frame = call[k].frame =>
                        /\ x = k
                        /\ e.event_type = "error"
                        /\ e.content = "Unknown event type"
                        /\ Len(received'[k]) = Len(received[k]) + 1
                        /\ pc'[k] = "Streaming"
                        /\ call'[k] = Idle
                        /\ cm' = cm]_vars

\* an identity with two registered connections: the one that sent the unknown
\* event has the error envelope and reads on, the other has nothing
C12_Witness ==
    \E j, k \in Conns :
        /\ j # k /\ owner[j] = owner[k]
        /\ {j, k} \subseteq Registered(cm)
        /\ pc[k] = "Streaming"
        /\ received[j] = <<>>
        /\ Len(received[k]) = 1
        /\ received[k][1].content = "Unknown event type"

\* C13: a message_send without conversation_id or without (or with empty)
\* content starts no broadcast and changes nothing; the only envelope of the
\* event is the error envelope on the sending connection, which is then back
\* at receive_text and still registered.
C13_MissingFieldsRejected ==
    [][\A k \in Conns :
          /\ \A c \in Convs \cup {NoConv}, content \in {"hi", ""} :
                (MessageSend(k, c, content) /\ (c = NoConv \/ content = "")) =>
                    /\ pc'[k] = "ErrorReply"
                    /\ call'[k].status = "rejected"
                    /\ cm' = cm
                    /\ received' = received
          /\ call[k].status = "rejected" =>
                \A x \in Conns : \A e \in Appended(x) :
                    e.frame = call[k].frame =>
                        /\ x = k
                        /\ e.event_type = "error"
                        /\ Len(received'[k]) = Len(received[k]) + 1
                        /\ pc'[k] = "Streaming"
                        /\ k \in Registered(cm')
                        /\ cm' = cm]_vars

\* a member of a conversation sent a message_send without its fields: it has
\* the error envelope and reads on, the other member has no envelope
C13_Witness ==
    \E j, k \in Conns :
        /\ owner[j] # owner[k]
        /\ {j, k} \subseteq Registered(cm)
        /\ \E c \in Convs : {owner[j], owner[k]} \subseteq get_conversation_participants(cm, c)
        /\ pc[k] = "Streaming"
        /\ \E i \in DOMAIN received[k] :
              received[k][i].content = "conversation_id and content are required"
        /\ \A i \in DOMAIN received[j] : received[j][i].event_type = "user_joined_conversation"

\* C14 (as claimed): a join_conversation or leave_conversation frame without
\* conversation_id is answered with an error envelope to its connection,
\* with the manager unchanged and the connection open.
C14_MissingConversationIsError ==
    [][\A k \in Conns :
          (JoinConversation(k, NoConv) \/ LeaveConversation(k, NoConv)) =>
              /\ pc'[k] = "ErrorReply"
              /\ cm' = cm
              /\ transport'[k] = "open"]_vars

\* a join_conversation or leave_conversation frame without conversation_id
\* changes nothing and the task is back at receive_text
MissingConversationIgnored ==
    [][\A k \in Conns :
          (JoinConversation(k, NoConv) \/ LeaveConversation(k, NoConv)) =>
              /\ pc'[k] = "Streaming"
              /\ cm' = cm
              /\ received' = received
              /\ transport' = transport]_vars

\* C15: a connection attempt without token, or with a token verify_token
\* rejects, goes from Connecting to Closed in one step that leaves the three
\* indexes, every user's online status and every connection count as they
\* were; the connection never gets an identity and is never registered.
C15_RejectedTokenUntouched ==
    [][\A k \in Conns :
          /\ RejectToken(k) => pc[k] = "Connecting" /\ pc'[k] = "Closed"
          /\ (pc[k] = "Connecting" /\ pc'[k] = "Closed") =>
                /\ cm' = cm
                /\ owner'[k] = NoUser
                /\ k \notin Registered(cm')
                /\ \A u \in Users :
                      /\ is_user_online(cm', u) <=> is_user_online(cm, u)
                      /\ get_user_connection_count(cm', u) = get_user_connection_count(cm, u)
                /\ received' = received]_vars

\* a rejected attempt beside a registered connection with a membership
C15_Witness ==
    \E j, k \in Conns :
        /\ pc[k] = "Closed" /\ owner[k] = NoUser /\ transport[k] = "closed"
        /\ pc[j] = "Streaming" /\ j \in Registered(cm)
        /\ get_user_conversations(cm, owner[j]) # {}

\* C16 (as claimed): the step in which a task leaves the read loop with its
\* user's last connection removes the user's memberships and starts the
\* broadcast of user_left_conversation to the remaining participants (those
\* with a registered connection) of a conversation the user was in.
C16_LeftNotificationOnRetire ==
    [][\A k \in Conns :
          (Leaves(k) /\ ConnectionsOf(cm, owner[k]) = {k}) =>
              LET convs == {c \in get_user_conversations(cm, owner[k]) :
                               RecipientConns(cm', c, owner[k]) # {}}
              IN /\ owner[k] \notin DOMAIN cm'.user_conversations
                 /\ convs # {} =>
                       /\ call'[k].status = "active"
                       /\ call'[k].kind = "leave_conversation"
                       /\ call'[k].conv \in convs]_vars

\* no user_left_conversation envelope is ever delivered for a user whose
\* task is not handling a leave_conversation frame
LeftOnlyOnLeaveFrame ==
    [][\A x \in Conns : \A e \in Appended(x) :
          e.event_type = "user_left_conversation" =>
              \E k \in Conns : /\ call[k].kind = "leave_conversation"
                               /\ call[k].frame = e.frame
                               /\ pc[k] = "Sending"]_vars

\* C17 (as claimed): for a user that is no participant of a conversation,
\* add_user_to_conversation followed by remove_user_from_conversation gives
\* back user_conversations and conversation_participants as they were.
C17_JoinLeaveRoundTrip ==
    \A u \in Users, c \in Convs :
        u \notin get_conversation_participants(cm, c) =>
            LET m == remove_user_from_conversation(
                         add_user_to_conversation(cm, u, c), u, c)
            IN /\ m.user_conversations = cm.user_conversations
               /\ m.conversation_participants = cm.conversation_participants

\* add_user_to_conversation followed by remove_user_from_conversation gives
\* back who participates in what (the sets the two getters return), and
\* leaves active_connections alone
RoundTripMembership ==
    \A u \in Users, c \in Convs :
        u \notin get_conversation_participants(cm, c) =>
            LET m == remove_user_from_conversation(
                         add_user_to_conversation(cm, u, c), u, c)
            IN /\ m.active_connections = cm.active_connections
               /\ \A v \in Users :
                     get_user_conversations(m, v) = get_user_conversations(cm, v)
               /\ \A d \in Convs :
                     get_conversation_participants(m, d)
                       = get_conversation_participants(cm, d)

\* C18: disconnect, add_user_to_conversation and remove_user_from_conversation
\* applied twice with the same arguments give the manager that one
\* application gives; disconnect of a connection that is not registered and
\* remove_user_from_conversation of a user that is no participant give the
\* manager back unchanged (the operations are defined on every manager).
C18_Idempotent ==
    \A u \in Users, c \in Convs, x \in Conns :
        /\ disconnect(disconnect(cm, u, x), u, x) = disconnect(cm, u, x)
        /\ add_user_to_conversation(add_user_to_conversation(cm, u, c), u, c)
             = add_user_to_conversation(cm, u, c)
        /\ remove_user_from_conversation(remove_user_from_conversation(cm, u, c), u, c)
             = remove_user_from_conversation(cm, u, c)
        /\ x \notin ConnectionsOf(cm, u) => disconnect(cm, u, x) = cm
        /\ u \notin get_conversation_participants(cm, c) =>
               remove_user_from_conversation(cm, u, c) = cm

\* a manager on which the three operations act differently: a user with two
\* connections and a membership, a conversation that was left by all, and a
\* connection that was disconnected
C18_Witness ==
    /\ \E u \in Users :
          /\ get_user_connection_count(cm, u) = 2
          /\ get_user_conversations(cm, u) # {}
    /\ \E c \in DOMAIN cm.conversation_participants :
          cm.conversation_participants[c] = {}
    /\ \E k \in Conns : pc[k] = "Closed" /\ owner[k] \in Users

\* C19 (as claimed): a typing_start or typing_stop frame without
\* conversation_id puts no envelope anywhere and leaves the manager alone; so
\* does one for a conversation with no participant but the sender; and no
\* error envelope is ever sent for a typing frame.
C19_TypingNeverErrors ==
    [][\A k \in Conns :
          /\ \A kind \in {"typing_start", "typing_stop"}, c \in Convs \cup {NoConv} :
                (/\ Typing(k, kind, c)
                 /\ get_conversation_participants(cm, c) \subseteq {owner[k]}) =>
                    /\ received' = received
                    /\ cm' = cm
                    /\ pc'[k] = "Streaming"
          /\ call[k].kind \in {"typing_start", "typing_stop"} =>
                \A e \in Appended(k) :
                    e.frame = call[k].frame => e.event_type # "error"]_vars

\* a typing frame without conversation_id, or for a conversation with no
\* participant but the sender, puts no envelope anywhere, leaves the manager
\* alone and has the task back at receive_text
TypingLenient ==
    [][\A k \in Conns :
          \A kind \in {"typing_start", "typing_stop"}, c \in Convs \cup {NoConv} :
              (/\ Typing(k, kind, c)
               /\ get_conversation_participants(cm, c) \subseteq {owner[k]}) =>
                  /\ received' = received
                  /\ cm' = cm
                  /\ pc'[k] = "Streaming"]_vars

\* C20: on a manager without connections and without conversations
\* get_stats returns 0 for the three counters and an average of 0, its
\* division having a divisor other than 0.
C20_EmptyStats ==
    (DOMAIN cm.active_connections = {} /\ DOMAIN cm.conversation_participants = {}) =>
        LET stats == get_stats(cm) IN
        /\ stats.total_users_online = 0
        /\ stats.total_connections = 0
        /\ stats.total_conversations = 0
        /\ stats.average_connections_per_user.den # 0
        /\ stats.average_connections_per_user.num = 0

\* the manager is empty again after connections were registered and
\* disconnected
C20_Witness ==
    /\ DOMAIN cm.active_connections = {}
    /\ DOMAIN cm.conversation_participants = {}
    /\ \E j, k \in Conns :
          /\ j # k
          /\ pc[j] = "Closed" /\ owner[j] \in Users
          /\ pc[k] = "Closed" /\ owner[k] \in Users

----------------------------------------------------------------------------
\* C21 (as claimed): a leave_conversation of user S for c leaves S a
\* participant for as long as the user_left_conversation broadcast runs, no
\* envelope of the event goes to a connection of S, and when the handler has
\* finished, whatever the other tasks did meanwhile, S is in neither index
\* for c.
C21_LeaveNotifiesThenRemoves ==
    [][\A k \in Conns :
          /\ \A c \in Convs :
                LeaveConversation(k, c) =>
                    IF call'[k].status = "active"
                    THEN cm' = cm
                    ELSE NoMember(cm', owner[k], c)
          /\ (call[k].kind = "leave_conversation" /\ call[k].status = "active") =>
                /\ \A x \in TasksOf(owner[k]) :
                      \A e \in Appended(x) : e.frame # call[k].frame
                /\ Ends(k) => NoMember(cm', owner[k], call[k].conv)]_vars

\* a leave_conversation whose broadcast returns has removed its user from
\* both indexes in the step of the return
LeaveRemovesOnReturn ==
    [][\A k \in Conns :
          (call[k].kind = "leave_conversation" /\ Returns(k)) =>
              NoMember(cm', owner[k], call[k].conv)]_vars

\* C22 (as claimed): a join_conversation of user S for c has S in both
\* indexes before the user_joined_conversation broadcast starts (S is in the
\* set the broadcast iterates), the broadcast has put the envelope on every
\* registered connection of the other participants when it ends, and no
\* connection of S gets the user_joined_conversation envelope of its own join.
C22_JoinAddsThenNotifies ==
    [][\A k \in Conns :
          /\ \A c \in Convs :
                JoinConversation(k, c) =>
                    /\ IsMember(cm', owner[k], c)
                    /\ call'[k].status = "active" => owner[k] \in call'[k].m0
          /\ (call[k].kind = "join_conversation" /\ call[k].status = "active") =>
                /\ Ends(k) => Owed(k) \subseteq DeliveredIn(received', call[k].frame)
                /\ \A x \in TasksOf(owner[k]) :
                      \A e \in Appended(x) :
                          ~ (/\ e.frame = call[k].frame
                             /\ e.event_type = "user_joined_conversation")]_vars

\* a join_conversation has its user in both indexes from the step that reads
\* the frame, and no envelope of the broadcast goes to the joining user
JoinAddsBeforeBroadcast ==
    [][\A k \in Conns :
          /\ \A c \in Convs :
                JoinConversation(k, c) =>
                    /\ IsMember(cm', owner[k], c)
                    /\ call'[k].status = "active" => owner[k] \in call'[k].m0
          /\ (call[k].kind = "join_conversation" /\ call[k].status = "active") =>
                \A x \in TasksOf(owner[k]) :
                    \A e \in Appended(x) :
                        ~ (/\ e.frame = call[k].frame
                           /\ e.event_type = "user_joined_conversation")]_vars

\* C23: a step that adds a user to a conversation's participants, a
\* conversation to a user's conversations or an entry to
\* conversation_participants is the join_conversation of a task of that user
\* for that conversation; no message_send, typing_start or typing_stop frame
\* and no send of a broadcast adds any.
C23_OnlyJoinAddsMembership ==
    [][/\ \A u \in Users, c \in Convs :
             (\/ u \in get_conversation_participants(cm', c)
                      \ get_conversation_participants(cm, c)
              \/ c \in get_user_conversations(cm', u) \ get_user_conversations(cm, u)) =>
                 \E k \in TasksOf(u) : JoinConversation(k, c)
       /\ \A c \in Convs :
             c \in (DOMAIN cm'.conversation_participants)
                      \ (DOMAIN cm.conversation_participants) =>
                 \E k \in Conns : JoinConversation(k, c)
       /\ \A k \in Conns :
             (\/ \E c \in Convs \cup {NoConv}, content \in {"hi", ""} : MessageSend(k, c, content)
              \/ \E c \in Convs \cup {NoConv}, kind \in {"typing_start", "typing_stop"} :
                    Typing(k, kind, c)
              \/ SendDelivered(k)
              \/ SendFailed(k)) =>
                 /\ DOMAIN cm'.conversation_participants
                      \subseteq DOMAIN cm.conversation_participants
                 /\ \A u \in Users, c \in Convs :
                       /\ get_conversation_participants(cm', c)
                            \subseteq get_conversation_participants(cm, c)
                       /\ get_user_conversations(cm', u)
                            \subseteq get_user_conversations(cm, u)]_vars

\* a typing envelope was delivered to the only participant of a conversation,
\* sent by a registered user that participates in nothing
C23_Witness ==
    \E x \in Conns, c \in Convs :
        /\ get_conversation_participants(cm, c) = {owner[x]}
        /\ \E i \in DOMAIN received[x] :
              /\ received[x][i].event_type \in {"typing_start", "typing_stop"}
              /\ received[x][i].conversation_id = c
              /\ is_user_online(cm, received[x][i].user_id)
              /\ get_user_conversations(cm, received[x][i].user_id) = {}

\* the envelopes of one sender are in the order of its frames on every
\* connection, for a sender that only ever had one connection
InFrameOrder ==
    \A x \in Conns : \A i, j \in DOMAIN received[x] :
        (/\ i < j
         /\ received[x][i].user_id = received[x][j].user_id
         /\ Cardinality(TasksOf(received[x][i].user_id)) = 1) =>
            received[x][i].frame < received[x][j].frame

\* C24: a task reads a frame only at receive_text with no handler of its own
\* running; an envelope is put on a connection only while the handler of
\* its frame runs, and the frame a task handles changes only when it reads;
\* so the envelopes a connection gets from one sender connection are in the
\* order of that sender's frames.
C24_InOrderPerConnection ==
    [][/\ \A k \in Conns :
             /\ (nframes' # nframes /\ call'[k].frame = nframes') =>
                   /\ pc[k] = "Streaming"
                   /\ call[k] = Idle
                   /\ nframes' = nframes + 1
             /\ call'[k].frame # call[k].frame =>
                   \/ call[k].frame = 0 /\ call'[k].frame = nframes' /\ nframes' # nframes
                   \/ call'[k].frame = 0
       /\ \A x \in Conns : \A e \in Appended(x) :
             \E k \in Conns :
                 /\ call[k].frame = e.frame
                 /\ pc[k] \in {"Sending", "UnknownReply", "ErrorReply"}
       /\ InFrameOrder']_vars

\* a connection has the message_received envelopes of two frames of one
\* sender connection
C24_Witness ==
    \E x \in Conns :
        /\ Len(received[x]) = 2
        /\ received[x][1].event_type = "message_received"
        /\ received[x][2].event_type = "message_received"
        /\ received[x][1].user_id = received[x][2].user_id
        /\ Cardinality(TasksOf(received[x][1].user_id)) = 1
        /\ received[x][1].frame < received[x][2].frame

\* C25 (as claimed): every task at receive_text (Streaming) has its
\* connection registered under its user, who is reported online.
C25_StreamingIsRegistered ==
    \A k \in Conns :
        pc[k] = "Streaming" =>
            /\ k \in ConnectionsOf(cm, owner[k])
            /\ is_user_online(cm, owner[k])

\* a task in the read loop whose transport had no failed send has its
\* connection registered; a connection leaves active_connections only in a
\* step of its own task leaving the loop or when a send to it has failed
StreamingOpenIsRegistered ==
    [][\A k \in Conns :
          /\ (pc'[k] \in InLoop /\ transport'[k] = "open") =>
                k \in ConnectionsOf(cm', owner'[k])
          /\ (k \in Registered(cm) /\ k \notin Registered(cm')) =>
                \/ Leaves(k)
                \/ transport'[k] = "closed" /\ pc'[k] = pc[k]]_vars

\* C26 (as claimed): a user all of whose tasks are Closed has no entry in
\* active_connections, none in user_conversations and is in no
\* conversation's participants.
C26_NothingLeftAfterClose ==
    \A u \in Users :
        (TasksOf(u) # {} /\ \A k \in TasksOf(u) : pc[k] = "Closed") =>
            /\ u \notin DOMAIN cm.active_connections
            /\ u \notin DOMAIN cm.user_conversations
            /\ \A c \in Convs : u \notin get_conversation_participants(cm, c)

\* C27: in every state in which a task is suspended, no user is a key of
\* active_connections with an empty dict: the keys (get_all_online_users),
\* the participants among the keys (get_online_users) and
\* total_users_online of get_stats are exactly the users for which
\* is_user_online is true.
C27_NoEmptyConnectionSet ==
    /\ \A u \in DOMAIN cm.active_connections : cm.active_connections[u] # <<>>
    /\ get_all_online_users(cm) = {u \in Users : is_user_online(cm, u)}
    /\ \A c \in Convs :
          get_online_users(cm, c)
            = {u \in get_conversation_participants(cm, c) : is_user_online(cm, u)}
    /\ get_stats(cm).total_users_online
         = Cardinality({u \in Users : is_user_online(cm, u)})

\* a conversation with two participants, one online and one whose only
\* connection was pruned after a failed send
C27_Witness ==
    \E c \in Convs, u, v \in Users :
        /\ {u, v} \subseteq get_conversation_participants(cm, c)
        /\ get_online_users(cm, c) = {u}
        /\ v \notin get_all_online_users(cm)
        /\ \E k \in TasksOf(v) : pc[k] = "Streaming" /\ transport[k] = "closed"

\* C28: a message_send, typing_start or typing_stop for a conversation c of
\* which the sender is no participant is not rejected: the frame leaves the
\* manager and the sender's membership alone, the broadcast addresses the
\* connections it would address were the sender a participant, and when it
\* returns with the sender still no participant every addressed connection
\* that stayed registered has the envelope.
C28_NoMembershipCheck ==
    [][\A k \in Conns :
          /\ \A c \in Convs, kind \in {"typing_start", "typing_stop"} :
                (/\ owner[k] \notin get_conversation_participants(cm, c)
                 /\ (MessageSend(k, c, "hi") \/ Typing(k, kind, c))) =>
                    /\ cm' = cm
                    /\ pc'[k] # "ErrorReply"
                    /\ RecipientConns(cm, c, owner[k])
                         = RecipientConns(add_user_to_conversation(cm, owner[k], c),
                                          c, owner[k])
                    /\ RecipientConns(cm, c, owner[k]) # {} =>
                          /\ pc'[k] = "Sending"
                          /\ call'[k].target \in RecipientConns(cm, c, owner[k])
                          /\ call'[k].steady = RecipientConns(cm, c, owner[k])
          /\ (/\ call[k].kind \in {"message_send", "typing_start", "typing_stop"}
              /\ owner[k] \notin call[k].ever
              /\ Returns(k)) =>
                 /\ Owed(k) \subseteq DeliveredIn(received', call[k].frame)
                 /\ NoMember(cm', owner[k], call[k].conv)]_vars

\* a message_received envelope was delivered whose sender is registered and
\* participates in nothing
C28_Witness ==
    \E x \in Conns :
        \E i \in DOMAIN received[x] :
            /\ received[x][i].event_type = "message_received"
            /\ is_user_online(cm, received[x][i].user_id)
            /\ get_user_conversations(cm, received[x][i].user_id) = {}
            /\ owner[x] \in get_conversation_participants(cm, received[x][i].conversation_id)

====
